---- MODULE Spec2Model ----
(***************************************************************************)
(* Nuclear cross-section lookup of lib/cross_sections.py.                  *)
(*                                                                         *)
(* Number representation (exact arithmetic, no rounding):                  *)
(*   energies        integers in units of 1e-5 GeV                         *)
(*   cross sections  integers in units of 1e-3 barn                        *)
(*   efrac           integer in units of 1/Scale                           *)
(*   cross_section   integer in units of 1e-3/Scale barn                   *)
(*   a               integer in units of 1e-3 amu                          *)
(*   rho             integer in kg/m^3                                     *)
(*   radlength       integer in units of 1e-5 m                            *)
(*   R               the term 0.94*pow(arg, 1./3.), kept symbolically as   *)
(*                   [coef (1e-2), arg (1e-3 amu)]; pow(., 1/3) is         *)
(*                   injective, so two such terms are equal exactly when   *)
(*                   coef and arg are                                      *)
(* 0-based Python indices are kept; a TLA+ sequence s is read at Python    *)
(* index i as s[i + 1].                                                    *)
(***************************************************************************)
EXTENDS Integers, Sequences, FiniteSets, TLC

VARIABLES fn, ma_index, energyrequest, curve, ilow, efrac, ret, pending, prev

vars == <<fn, ma_index, energyrequest, curve, ilow, efrac, ret, pending, prev>>

(* ---- tabulated data ---- *)

energy ==
    <<
       50, 100, 150, 200, 250, 300, 350, 400, 450, 500, 550, 600, 650, 700,
       750, 800, 900, 1000, 1100, 1200, 1300, 1400, 1500, 1750, 2000, 2250,
       2500, 3000, 3500, 4000, 4500, 5000, 5100, 5500, 6000, 7000, 8000, 9000,
       10000, 11000, 12000, 14000, 16000, 18000, 20000, 22500, 25000, 27500,
       30000, 32500, 35000, 37500, 40000, 50000, 70000, 100000, 150000,
       200000, 250000
    >>

z6_elastic ==
    <<
       0, 0, 0, 0, 0, 321, 335, 349, 363, 377, 386, 395, 404, 413, 423, 434,
       456, 479, 509, 539, 569, 598, 628, 685, 743, 783, 822, 878, 915, 938,
       813, 688, 678, 641, 594, 515, 448, 392, 345, 305, 272, 214, 167, 138,
       117, 98, 85, 77, 72, 68, 67, 66, 67, 77, 90, 102, 108, 114, 113
    >>

z6_inelastic ==
    <<
       0, 0, 0, 0, 0, 0, 0, 0, 0, 13, 78, 131, 175, 212, 244, 271, 314, 346,
       370, 389, 403, 413, 421, 432, 434, 432, 427, 412, 394, 376, 359, 344,
       288, 281, 272, 257, 245, 235, 228, 223, 220, 223, 213, 212, 212, 212,
       213, 214, 216, 217, 219, 221, 223, 229, 246, 261, 261, 257, 255
    >>

z13_elastic ==
    <<
       0, 0, 0, 0, 0, 91, 164, 237, 311, 384, 428, 473, 518, 562, 607, 623,
       654, 686, 692, 699, 701, 700, 700, 707, 714, 737, 761, 832, 905, 976,
       993, 1010, 1007, 994, 979, 921, 854, 786, 720, 658, 601, 490, 382, 320,
       274, 231, 202, 181, 167, 159, 153, 151, 151, 170, 198, 220, 232, 243,
       242
    >>

z13_inelastic ==
    <<
       0, 0, 0, 0, 123, 280, 391, 474, 537, 587, 626, 658, 684, 705, 722, 736,
       757, 771, 780, 785, 787, 787, 786, 777, 764, 749, 732, 699, 667, 638,
       611, 587, 530, 518, 503, 478, 456, 437, 422, 410, 402, 397, 394, 393,
       392, 393, 395, 397, 399, 402, 405, 408, 411, 415, 438, 457, 460, 454,
       450
    >>

z26_elastic ==
    <<
       0, 0, 0, 0, 0, 1, 15, 30, 45, 59, 109, 159, 209, 259, 309, 364, 474,
       584, 668, 753, 819, 867, 915, 964, 1013, 1030, 1047, 1063, 1075, 1098,
       1121, 1143, 1153, 1192, 1240, 1293, 1306, 1289, 1250, 1198, 1137, 984,
       777, 669, 582, 499, 438, 393, 361, 340, 325, 317, 314, 346, 389, 425,
       444, 461, 460
    >>

z26_inelastic ==
    <<
       0, 0, 0, 0, 0, 0, 0, 17, 174, 301, 404, 490, 562, 623, 676, 721, 795,
       852, 896, 931, 959, 981, 999, 1028, 1044, 1050, 1050, 1040, 1021, 999,
       976, 952, 920, 899, 873, 834, 790, 753, 719, 698, 685, 672, 677, 674,
       673, 674, 675, 678, 681, 685, 689, 693, 697, 679, 710, 735, 744, 740,
       739
    >>

z29_elastic ==
    <<
       0, 0, 0, 0, 0, 0, 17, 25, 33, 77, 121, 165, 208, 252, 310, 426, 541,
       634, 726, 800, 855, 910, 971, 1033, 1058, 1083, 1113, 1132, 1156, 1161,
       1165, 1175, 1216, 1268, 1337, 1368, 1368, 1343, 1300, 1245, 1092, 869,
       752, 657, 565, 496, 446, 410, 384, 368, 358, 353, 385, 429, 468, 488,
       505, 504
    >>

z29_inelastic ==
    <<
       0, 0, 0, 0, 0, 0, 0, 63, 225, 354, 460, 548, 622, 685, 739, 786, 862,
       920, 966, 1003, 1032, 1055, 1073, 1104, 1121, 1128, 1128, 1118, 1100,
       1077, 1053, 1029, 986, 966, 942, 902, 859, 822, 788, 765, 749, 732,
       736, 733, 732, 732, 734, 737, 740, 744, 748, 752, 756, 736, 768, 794,
       805, 804, 806
    >>

z73_elastic ==
    <<
       0, 0, 0, 0, 0, 0, 0, 0, 0, 0, 0, 0, 0, 0, 0, 4, 11, 19, 72, 126, 207,
       316, 425, 704, 982, 1124, 1266, 1401, 1506, 1586, 1593, 1600, 1608,
       1639, 1679, 1773, 1884, 2001, 2109, 2198, 2261, 2255, 1984, 1831, 1679,
       1506, 1359, 1240, 1146, 1070, 1022, 985, 963, 997, 1053, 1119, 1186,
       1193, 1192
    >>

z73_inelastic ==
    <<
       0, 0, 0, 0, 0, 0, 0, 0, 0, 0, 0, 0, 0, 0, 0, 12, 286, 505, 685, 833,
       958, 1065, 1156, 1334, 1462, 1557, 1628, 1723, 1779, 1810, 1825, 1831,
       1824, 1823, 1821, 1807, 1784, 1761, 1736, 1705, 1676, 1629, 1604, 1591,
       1578, 1574, 1568, 1564, 1560, 1555, 1551, 1546, 1541, 1549, 1599, 1641,
       1666, 1669, 1674
    >>

z74_elastic ==
    <<
       0, 0, 0, 0, 0, 0, 0, 0, 0, 0, 0, 0, 0, 0, 0, 3, 10, 17, 67, 118, 197,
       305, 412, 694, 975, 1121, 1267, 1404, 1511, 1591, 1600, 1610, 1618,
       1649, 1689, 1782, 1893, 2010, 2120, 2211, 2276, 2275, 2006, 1852, 1700,
       1526, 1378, 1258, 1163, 1090, 1037, 1000, 977, 1011, 1067, 1134, 1171,
       1209, 1207
    >>

z74_inelastic ==
    <<
       0, 0, 0, 0, 0, 0, 0, 0, 0, 0, 0, 0, 0, 0, 0, 0, 265, 489, 672, 823,
       951, 1059, 1152, 1334, 1465, 1562, 1635, 1733, 1790, 1823, 1840, 1846,
       1840, 1839, 1838, 1825, 1804, 1782, 1759, 1728, 1700, 1653, 1626, 1612,
       1599, 1594, 1588, 1583, 1578, 1573, 1568, 1562, 1557, 1568, 1618, 1659,
       1686, 1689, 1693
    >>

z78_elastic ==
    <<
       0, 0, 0, 0, 0, 0, 0, 0, 0, 0, 0, 0, 0, 0, 0, 2, 7, 11, 53, 95, 166,
       267, 368, 660, 951, 1110, 1268, 1414, 1527, 1611, 1628, 1644, 1652,
       1684, 1724, 1815, 1926, 2044, 2159, 2257, 2330, 2344, 2082, 1930, 1776,
       1599, 1447, 1323, 1224, 1148, 1093, 1053, 1029, 1063, 1120, 1188, 1226,
       1265, 1263
    >>

z78_inelastic ==
    <<
       0, 0, 0, 0, 0, 0, 0, 0, 0, 0, 0, 0, 0, 0, 0, 0, 176, 415, 611, 774,
       911, 1028, 1128, 1325, 1467, 1573, 1653, 1762, 1827, 1866, 1888, 1898,
       1947, 1935, 1920, 1896, 1867, 1833, 1799, 1762, 1729, 1678, 1658, 1649,
       1641, 1639, 1638, 1637, 1637, 1637, 1637, 1637, 1638, 1633, 1684, 1727,
       1755, 1758, 1763
    >>

z82_elastic ==
    <<
       0, 0, 0, 0, 0, 0, 0, 0, 0, 0, 0, 0, 0, 0, 0, 1, 4, 7, 40, 74, 138, 231,
       325, 625, 925, 1097, 1270, 1426, 1545, 1633, 1659, 1684, 1692, 1725,
       1765, 1853, 1962, 2083, 2203, 2309, 2392, 2423, 2170, 2020, 1865, 1685,
       1528, 1399, 1296, 1216, 1158, 1116, 1090, 1124, 1181, 1251, 1291, 1330,
       1328
    >>

z82_inelastic ==
    <<
       0, 0, 0, 0, 0, 0, 0, 0, 0, 0, 0, 0, 0, 0, 0, 0, 90, 346, 556, 731, 878,
       1004, 1112, 1325, 1479, 1594, 1682, 1803, 1877, 1922, 1948, 1962, 2074,
       2048, 2015, 1979, 1939, 1892, 1845, 1801, 1762, 1706, 1695, 1691, 1690,
       1691, 1695, 1699, 1705, 1712, 1718, 1725, 1733, 1711, 1763, 1807, 1836,
       1840, 1845
    >>

(* ---- material records ---- *)

\* the value 0.94*pow(arg, 1./3.) as a term
NuclearRadius(arg) == [coef |-> 94, arg |-> arg]

MP(z, a, rho, radlength, R, ecross, icross) ==
    [z |-> z, a |-> a, rho |-> rho, radlength |-> radlength, R |-> R,
     ecross |-> ecross, icross |-> icross]

carbon == MP(6, 12010, 2270, 18800, NuclearRadius(12010), z6_elastic, z6_inelastic)

aluminum == MP(13, 26920, 2700, 8900, NuclearRadius(26920), z13_elastic, z13_inelastic)

iron == MP(26, 55850, 7870, 1760, NuclearRadius(55850), z26_elastic, z26_inelastic)

copper == MP(29, 63546, 8960, 1430, NuclearRadius(63550), z29_elastic, z29_inelastic)

tantalum == MP(73, 180950, 16600, 411, NuclearRadius(180950), z73_elastic, z73_inelastic)

tungstun == MP(74, 183840, 19300, 350, NuclearRadius(183840), z74_elastic, z74_inelastic)

platinum == MP(78, 195080, 21450, 305, NuclearRadius(195080), z78_elastic, z78_inelastic)

lead == MP(82, 207200, 11350, 560, NuclearRadius(207200), z82_elastic, z82_inelastic)

(* ---- bounds of the explored inputs ---- *)

\* selectors range over -MaxInvalid .. 7+MaxInvalid, and 99
MaxInvalid == 1

\* requested energies inside a bin: the Sub-1 points lower + j*(width \div Sub)
Sub == 2

\* requested energies above the table: energy[58] + j*50000, j in 1..MaxAbove
MaxAbove == 2

\* two-call comparisons span at most MaxSpan bins
MaxSpan == 3

(* ---- the property accessors ---- *)

get_z_value(m) ==
    IF m = 0 THEN carbon.z
    ELSE IF m = 1 THEN aluminum.z
    ELSE IF m = 2 THEN iron.z
    ELSE IF m = 3 THEN copper.z
    ELSE IF m = 4 THEN tantalum.z
    ELSE IF m = 5 THEN tungstun.z
    ELSE IF m = 6 THEN platinum.z
    ELSE lead.z

\* get_a with the weight copper's R is computed from
get_a_valueStale(m) ==
    IF m = 0 THEN 12010
    ELSE IF m = 1 THEN 26920
    ELSE IF m = 2 THEN 55850
    ELSE IF m = 3 THEN 63550
    ELSE IF m = 4 THEN 180950
    ELSE IF m = 5 THEN 183840
    ELSE IF m = 6 THEN 195080
    ELSE 207200

get_a_value(m) ==
    IF m = 0 THEN 12010
    ELSE IF m = 1 THEN 26920
    ELSE IF m = 2 THEN 55850
    ELSE IF m = 3 THEN 63546
    ELSE IF m = 4 THEN 180950
    ELSE IF m = 5 THEN 183840
    ELSE IF m = 6 THEN 195080
    ELSE 207200

\* get_rho with lead matched explicitly and another default
get_rho_valueLeadExplicit(m) ==
    IF m = 0 THEN carbon.rho
    ELSE IF m = 1 THEN aluminum.rho
    ELSE IF m = 2 THEN iron.rho
    ELSE IF m = 3 THEN copper.rho
    ELSE IF m = 4 THEN tantalum.rho
    ELSE IF m = 5 THEN tungstun.rho
    ELSE IF m = 6 THEN platinum.rho
    ELSE IF m = 7 THEN lead.rho
    ELSE carbon.rho

get_rho_value(m) ==
    IF m = 0 THEN carbon.rho
    ELSE IF m = 1 THEN aluminum.rho
    ELSE IF m = 2 THEN iron.rho
    ELSE IF m = 3 THEN copper.rho
    ELSE IF m = 4 THEN tantalum.rho
    ELSE IF m = 5 THEN tungstun.rho
    ELSE IF m = 6 THEN platinum.rho
    ELSE lead.rho

get_radlength_value(m) ==
    IF m = 0 THEN carbon.radlength
    ELSE IF m = 1 THEN aluminum.radlength
    ELSE IF m = 2 THEN iron.radlength
    ELSE IF m = 3 THEN copper.radlength
    ELSE IF m = 4 THEN tantalum.radlength
    ELSE IF m = 5 THEN tungstun.radlength
    ELSE IF m = 6 THEN platinum.radlength
    ELSE lead.radlength

(* ---- the cross-section lookups ---- *)

\* ec of get_elastic_crosssection
SelectEcross(m) ==
    IF m = 0 THEN carbon.ecross
    ELSE IF m = 1 THEN aluminum.ecross
    ELSE IF m = 2 THEN iron.ecross
    ELSE IF m = 3 THEN copper.ecross
    ELSE IF m = 4 THEN tantalum.ecross
    ELSE IF m = 5 THEN tungstun.ecross
    ELSE IF m = 6 THEN platinum.ecross
    ELSE lead.ecross

\* ic of get_inelastic_crosssection
SelectIcross(m) ==
    IF m = 0 THEN carbon.icross
    ELSE IF m = 1 THEN aluminum.icross
    ELSE IF m = 2 THEN iron.icross
    ELSE IF m = 3 THEN copper.icross
    ELSE IF m = 4 THEN tantalum.icross
    ELSE IF m = 5 THEN tungstun.icross
    ELSE IF m = 6 THEN platinum.icross
    ELSE lead.icross

\* a[i] for a numpy array a and a non-negative Python index i
InRange(a, i) == i >= 0 /\ i < Len(a)

At(a, i) == a[i + 1]

\* the loop "for i in range(58): if energyrequest <= energy[i+1]: ilow = i; break"
\* entered with ilow = 57, from iteration i on
RECURSIVE ScanFrom(_, _)
ScanFrom(e, i) ==
    IF i >= 58 THEN 57
    ELSE IF e <= At(energy, i + 1) THEN i
    ELSE ScanFrom(e, i + 1)

\* the scan comparing against energy[i] instead of energy[i+1]
RECURSIVE ScanFromOffByOne(_, _)
ScanFromOffByOne(e, i) ==
    IF i >= 58 THEN 57
    ELSE IF e <= At(energy, i) THEN i
    ELSE ScanFromOffByOne(e, i + 1)

FindIlowOffByOne(e) == ScanFromOffByOne(e, 0)

\* the scan entered with ilow = 58
FindIlowDefault58(e) ==
    IF e <= At(energy, 58) THEN ScanFrom(e, 0) ELSE 58

\* the scan with the test energyrequest < energy[i+1]
RECURSIVE ScanFromStrict(_, _)
ScanFromStrict(e, i) ==
    IF i >= 58 THEN 57
    ELSE IF e < At(energy, i + 1) THEN i
    ELSE ScanFromStrict(e, i + 1)

FindIlowStrict(e) == ScanFromStrict(e, 0)

FindIlow(e) == ScanFrom(e, 0)

\* common denominator of efrac: the least common multiple of the bin widths
Scale == 300000

\* efrac = (energyrequest - energy[ilow]) / (energy[ilow + 1] - energy[ilow]),
\* in units of 1/Scale; a float64 division by zero yields inf or nan
EfracDen(il) == At(energy, il + 1) - At(energy, il)

\* efrac measured from the upper edge of the bin
EfracFromUpper(e, il) ==
    (e - At(energy, il + 1)) * (Scale \div EfracDen(il))

Efrac(e, il) ==
    (e - At(energy, il)) * (Scale \div EfracDen(il))

\* cross_section = ec[ilow] + efrac*(ec[ilow + 1] - ec[ilow]), in units of
\* 1e-3/Scale barn
\* the interpolation started from the upper edge of the bin
InterpolateFromUpper(c, il, ef) ==
    At(c, il + 1) * Scale + ef * (At(c, il + 1) - At(c, il))

Interpolate(c, il, ef) ==
    At(c, il) * Scale + ef * (At(c, il + 1) - At(c, il))

\* what a lookup over curve c does from the bin search on
NoRet == [status |-> "none", value |-> 0]

\* no earlier call to compare with
NoPrev == [energyrequest |-> 0, status |-> "none", value |-> 0]

LookupRet(c, e) ==
    LET il == FindIlow(e)
    IN  IF ~(InRange(energy, il) /\ InRange(energy, il + 1))
        THEN [status |-> "IndexError", value |-> 0]
        ELSE IF EfracDen(il) = 0
        THEN [status |-> "nan", value |-> 0]
        ELSE IF ~(InRange(c, il) /\ InRange(c, il + 1))
        THEN [status |-> "IndexError", value |-> 0]
        ELSE [status |-> "ok", value |-> Interpolate(c, il, Efrac(e, il))]

LookupEfrac(e) ==
    LET il == FindIlow(e)
    IN  IF InRange(energy, il) /\ InRange(energy, il + 1) /\ EfracDen(il) # 0
        THEN Efrac(e, il)
        ELSE 0

(* ---- inputs ---- *)

Selectors == ((0 - MaxInvalid) .. (7 + MaxInvalid)) \cup {99}

TablePoints == {At(energy, k) : k \in 0 .. 58}

InteriorPoints ==
    {At(energy, k) + j * ((At(energy, k + 1) - At(energy, k)) \div Sub) :
        k \in 0 .. 57, j \in 1 .. (Sub - 1)}

\* 0.0525 GeV, and requests below and above the table
ScenarioPoints == {5250, 0, 25}

AbovePoints == {At(energy, 58) + j * 50000 : j \in 1 .. MaxAbove}

EnergyRequests == TablePoints \cup InteriorPoints \cup ScenarioPoints \cup AbovePoints

(* ---- state machine: one call at a time, with any input ---- *)
(* fn names the function whose frame is live ("none" between calls); the   *)
(* other variables are its arguments, its locals and what it returns.      *)

Init ==
    /\ fn = "none"
    /\ ma_index = 0
    /\ energyrequest = 0
    /\ curve = <<>>
    /\ ilow = 0
    /\ efrac = 0
    /\ ret = NoRet
    /\ pending = <<>>
    /\ prev = NoPrev

Accessor(name, m, v) ==
    /\ fn' = name
    /\ ma_index' = m
    /\ ret' = [status |-> "ok", value |-> v]
    /\ UNCHANGED <<energyrequest, curve, ilow, efrac>>

get_z(m) == Accessor("get_z", m, get_z_value(m))

get_a(m) == Accessor("get_a", m, get_a_value(m))

get_rho(m) == Accessor("get_rho", m, get_rho_value(m))

get_radlength(m) == Accessor("get_radlength", m, get_radlength_value(m))

Lookup(name, c, e, m) ==
    /\ fn' = name
    /\ ma_index' = m
    /\ energyrequest' = e
    /\ curve' = c
    /\ ilow' = FindIlow(e)
    /\ efrac' = LookupEfrac(e)
    /\ ret' = LookupRet(c, e)

get_elastic_crosssection(e, m) ==
    Lookup("get_elastic_crosssection", SelectEcross(m), e, m)

get_inelastic_crosssection(e, m) ==
    Lookup("get_inelastic_crosssection", SelectIcross(m), e, m)

CallGetZ == 
    /\ fn = "none"
    /\ \E m \in Selectors : get_z(m)
    /\ UNCHANGED <<pending, prev>>

CallGetA == 
    /\ fn = "none"
    /\ \E m \in Selectors : get_a(m)
    /\ UNCHANGED <<pending, prev>>

CallGetRho == 
    /\ fn = "none"
    /\ \E m \in Selectors : get_rho(m)
    /\ UNCHANGED <<pending, prev>>

CallGetRadlength == 
    /\ fn = "none"
    /\ \E m \in Selectors : get_radlength(m)
    /\ UNCHANGED <<pending, prev>>

CallElastic ==
    /\ fn = "none"
    /\ \E m \in Selectors, e \in EnergyRequests : get_elastic_crosssection(e, m)
    /\ UNCHANGED <<pending, prev>>

CallInelastic ==
    /\ fn = "none"
    /\ \E m \in Selectors, e \in EnergyRequests : get_inelastic_crosssection(e, m)
    /\ UNCHANGED <<pending, prev>>

\* the call is over and its frame is dropped
Return ==
    /\ fn # "none"
    /\ pending = <<>>
    /\ fn' = "none"
    /\ ma_index' = 0
    /\ energyrequest' = 0
    /\ curve' = <<>>
    /\ ilow' = 0
    /\ efrac' = 0
    /\ ret' = NoRet
    /\ UNCHANGED <<pending, prev>>

Next ==
    \/ Return
    \/ CallGetZ
    \/ CallGetA
    \/ CallGetRho
    \/ CallGetRadlength
    \/ CallElastic
    \/ CallInelastic

Spec == Init /\ [][Next]_vars

(* ---- two lookups of one curve at increasing energies ---- *)

\* the largest k with energy[k] <= e, and the smallest k with energy[k] >= e
CoverLo(e) == CHOOSE k \in 0 .. 58 :
    At(energy, k) <= e /\ \A j \in 0 .. 58 : At(energy, j) <= e => j <= k

CoverHi(e) == CHOOSE k \in 0 .. 58 :
    At(energy, k) >= e /\ \A j \in 0 .. 58 : At(energy, j) >= e => j >= k

InTable(e) == At(energy, 0) <= e /\ e <= At(energy, 58)

InitMono ==
    /\ fn = "none"
    /\ ma_index \in 0 .. 7
    /\ energyrequest = 0
    /\ curve = <<>>
    /\ ilow = 0
    /\ efrac = 0
    /\ ret = NoRet
    /\ prev = NoPrev
    /\ \E e1 \in EnergyRequests, e2 \in EnergyRequests :
        /\ InTable(e1) /\ InTable(e2)
        /\ e1 < e2
        /\ CoverHi(e2) - CoverLo(e1) <= MaxSpan
        /\ pending = <<e1, e2>>

Remember ==
    /\ pending' = Tail(pending)
    /\ prev' = [energyrequest |-> energyrequest, status |-> ret.status,
                value |-> ret.value]

MonoElastic ==
    /\ pending # <<>>
    /\ fn \in {"none", "get_elastic_crosssection"}
    /\ get_elastic_crosssection(Head(pending), ma_index)
    /\ Remember

MonoInelastic ==
    /\ pending # <<>>
    /\ fn \in {"none", "get_inelastic_crosssection"}
    /\ get_inelastic_crosssection(Head(pending), ma_index)
    /\ Remember

NextMono ==
    \/ MonoElastic
    \/ MonoInelastic

SpecMono == InitMono /\ [][NextMono]_vars

(* ---- what the claims speak of ---- *)

IsLookup == fn \in {"get_elastic_crosssection", "get_inelastic_crosssection"}

ValidSelector == ma_index \in 0 .. 7

\* selector -> material, in the documented order
MaterialOf(s) ==
    CASE s = 0 -> carbon
      [] s = 1 -> aluminum
      [] s = 2 -> iron
      [] s = 3 -> copper
      [] s = 4 -> tantalum
      [] s = 5 -> tungstun
      [] s = 6 -> platinum
      [] s = 7 -> lead

\* the table the lookup named fn is documented to read for selector s
TableOf(s) ==
    IF fn = "get_elastic_crosssection" THEN MaterialOf(s).ecross
    ELSE MaterialOf(s).icross

\* the documented bin: the smallest i in 0..57 with e <= energy[i+1], else 57
DocumentedIlow(e) ==
    IF \E i \in 0 .. 57 : e <= At(energy, i + 1)
    THEN CHOOSE i \in 0 .. 57 :
            /\ e <= At(energy, i + 1)
            /\ \A j \in 0 .. 57 : e <= At(energy, j + 1) => i <= j
    ELSE 57

\* x is the fraction num/den, in units of 1/Scale
IsFraction(x, num, den) ==
    /\ den > 0
    /\ Scale % den = 0
    /\ x = num * (Scale \div den)

Returned(v) == ret.status = "ok" /\ ret.value = v

\* C1: for every selector in 0..7, both lookups and every requested energy,
\* ilow is the smallest i in 0..57 with E <= energy[i+1] (57 when there is
\* none), efrac = (E - energy[ilow]) / (energy[ilow+1] - energy[ilow]), and
\* the lookup returns curve[ilow] + efrac * (curve[ilow+1] - curve[ilow]) over
\* the selected material's table.
C1_LookupFormula ==
    (IsLookup /\ ValidSelector) =>
        /\ ilow = DocumentedIlow(energyrequest)
        /\ IsFraction(efrac, energyrequest - At(energy, ilow),
                      At(energy, ilow + 1) - At(energy, ilow))
        /\ curve = TableOf(ma_index)
        /\ ret.status = "ok"
        /\ InRange(curve, ilow + 1)
        /\ ret.value = At(curve, ilow) * Scale
                        + efrac * (At(curve, ilow + 1) - At(curve, ilow))

\* C2: for every selector in 0..7, both lookups and every k in 0..58, a lookup
\* at exactly energy[k] returns exactly curve[k] of the selected material; the
\* elastic lookup for carbon at 0.006 GeV returns z6_elastic[11] = 0.395.
C2_TabulatedPoint ==
    (IsLookup /\ ValidSelector) =>
        /\ \A k \in 0 .. 58 :
            energyrequest = At(energy, k) =>
                /\ InRange(TableOf(ma_index), k)
                /\ Returned(At(TableOf(ma_index), k) * Scale)
        /\ (fn = "get_elastic_crosssection" /\ ma_index = 0
                /\ energyrequest = 600) =>
            /\ At(energy, 11) = 600
            /\ At(z6_elastic, 11) = 395
            /\ Returned(395 * Scale)

Tantalum0525 ==
    /\ fn = "get_inelastic_crosssection"
    /\ ma_index = 4
    /\ energyrequest = 5250

\* C3 as stated: the inelastic lookup for tantalum at 0.0525 GeV selects the
\* bin between energy[31] = 0.05 and energy[32] = 0.051, has efrac = 0.25 and
\* returns 1.825 + 0.25 * (1.831 - 1.825) = 1.8265.
C3_Original ==
    Tantalum0525 =>
        /\ ilow = 31
        /\ At(energy, 31) = 5000 /\ At(energy, 32) = 5100
        /\ IsFraction(efrac, 1, 4)
        /\ Returned(1825 * Scale + (Scale \div 4) * (1831 - 1825))

\* C3 amended: the inelastic lookup for tantalum at 0.0525 GeV selects the bin
\* between energy[32] = 0.051 and energy[33] = 0.055, has efrac = 0.375 and
\* returns 1.824 + 0.375 * (1.823 - 1.824) = 1.823625.
C3_Amended ==
    Tantalum0525 =>
        /\ ilow = 32
        /\ At(energy, 32) = 5100 /\ At(energy, 33) = 5500
        /\ At(curve, 32) = 1824 /\ At(curve, 33) = 1823
        /\ IsFraction(efrac, 3, 8)
        /\ Returned(1823625 * (Scale \div 1000))

C3_Witness == Tantalum0525 /\ ret.status = "ok" /\ ilow = 32

NonNegative(c) == \A i \in 1 .. Len(c) : c[i] >= 0

\* C4: each of the 8 materials has an elastic and an inelastic curve of
\* exactly 59 non-negative entries, index-aligned with the 59-entry energy
\* table, so curve[i] is defined for every index i in 0..58.
C4_Curves59 ==
    /\ Len(energy) = 59
    /\ \A s \in 0 .. 7 :
        /\ Len(MaterialOf(s).ecross) = 59 /\ NonNegative(MaterialOf(s).ecross)
        /\ Len(MaterialOf(s).icross) = 59 /\ NonNegative(MaterialOf(s).icross)
    /\ (IsLookup /\ ValidSelector) => \A i \in 0 .. 58 : InRange(curve, i)

\* C5: for every selector in 0..7 and both lookups, a lookup never fails
\* because of the requested energy (below, inside or above the table) and
\* returns a finite number; above energy[58] it returns the extrapolation
\* curve[57] + efrac * (curve[58] - curve[57]) with efrac > 1.
C5_NeverFails ==
    (IsLookup /\ ValidSelector) =>
        /\ ret.status = "ok"
        /\ energyrequest > At(energy, 58) =>
            /\ ilow = 57
            /\ efrac > Scale
            /\ ret.value = At(TableOf(ma_index), 57) * Scale
                + efrac * (At(TableOf(ma_index), 58) - At(TableOf(ma_index), 57))

\* C6: the four property accessors and both lookups fail with an
\* InvalidSelectorError, returning no value, whenever the selector is
\* outside [0, 7].
C6_InvalidSelectorFails ==
    (fn # "none" /\ ~ValidSelector) => ret.status = "InvalidSelectorError"

\* C7: for every selector s in 0..7 the six operations resolve s to the same
\* material, in the order carbon, aluminum, iron, copper, tantalum, tungsten,
\* platinum, lead, and get_z, get_a, get_rho, get_radlength return exactly the
\* z, a, rho, radlength stored in that material's record.
C7_SameMaterial ==
    ValidSelector =>
        /\ fn = "get_z" => Returned(MaterialOf(ma_index).z)
        /\ fn = "get_a" => Returned(MaterialOf(ma_index).a)
        /\ fn = "get_rho" => Returned(MaterialOf(ma_index).rho)
        /\ fn = "get_radlength" => Returned(MaterialOf(ma_index).radlength)
        /\ fn = "get_elastic_crosssection" => curve = MaterialOf(ma_index).ecross
        /\ fn = "get_inelastic_crosssection" => curve = MaterialOf(ma_index).icross

C7_Witness ==
    /\ fn = "get_a"
    /\ ma_index = 3
    /\ Returned(copper.a)

\* C8: for each of the 8 materials the stored R equals 0.94 * A^(1/3) with A
\* the material's stored atomic weight a, which is also what get_a returns.
C8_RadiusFromStoredWeight ==
    /\ \A s \in 0 .. 7 : MaterialOf(s).R = NuclearRadius(MaterialOf(s).a)
    /\ (fn = "get_a" /\ ValidSelector /\ ret.status = "ok") =>
            MaterialOf(ma_index).R = NuclearRadius(ret.value)

\* C9: the energy table has 59 strictly increasing entries, and in every
\* lookup 0 <= ilow <= 57, so the denominator energy[ilow+1] - energy[ilow]
\* is strictly positive and no division by zero occurs.
C9_NoDivisionByZero ==
    /\ Len(energy) = 59
    /\ \A i \in 0 .. 57 : At(energy, i) < At(energy, i + 1)
    /\ IsLookup =>
        /\ 0 <= ilow /\ ilow <= 57
        /\ At(energy, ilow + 1) - At(energy, ilow) > 0
        /\ ret.status # "nan"

C9_Witness ==
    /\ IsLookup
    /\ energyrequest > At(energy, 58)
    /\ ilow = 57
    /\ efrac > Scale

\* the table points k..h of c exist and are non-decreasing
NonDecreasingOver(c, k, h) ==
    \A i \in k .. (h - 1) :
        InRange(c, i) /\ InRange(c, i + 1) /\ At(c, i) <= At(c, i + 1)

BothLooked == IsLookup /\ pending = <<>> /\ prev.status # "none"

\* C10: for every selector in 0..7, both lookups and energies e1 < e2 inside
\* [energy[0], energy[58]]: if the tabulated curve is non-decreasing over the
\* table points of the bins covering [e1, e2], then lookup(e1) <= lookup(e2),
\* also when e1 and e2 fall in different bins.
C10_Monotone ==
    (/\ BothLooked
     /\ ValidSelector
     /\ prev.energyrequest < energyrequest
     /\ InTable(prev.energyrequest) /\ InTable(energyrequest)
     /\ NonDecreasingOver(TableOf(ma_index), CoverLo(prev.energyrequest),
                          CoverHi(energyrequest)))
    => /\ prev.status = "ok"
       /\ ret.status = "ok"
       /\ prev.value <= ret.value

C10_Witness ==
    /\ BothLooked
    /\ NonDecreasingOver(TableOf(ma_index), CoverLo(prev.energyrequest),
                         CoverHi(energyrequest))
    /\ FindIlow(prev.energyrequest) < ilow
    /\ prev.status = "ok" /\ ret.status = "ok"
    /\ prev.value < ret.value

\* C11: for every selector that is not one of 0..6 (7, above 7 such as 99,
\* negative), each of the six functions raises no error and returns exactly
\* what it returns for lead (selector 7).
C11_FallbackToLead ==
    (fn # "none" /\ ma_index \notin 0 .. 6) =>
        /\ ret.status = "ok"
        /\ fn = "get_z" => ret.value = get_z_value(7) /\ ret.value = lead.z
        /\ fn = "get_a" => ret.value = get_a_value(7) /\ ret.value = lead.a
        /\ fn = "get_rho" => ret.value = get_rho_value(7) /\ ret.value = lead.rho
        /\ fn = "get_radlength" =>
            ret.value = get_radlength_value(7) /\ ret.value = lead.radlength
        /\ fn = "get_elastic_crosssection" =>
            /\ curve = lead.ecross
            /\ ret = LookupRet(SelectEcross(7), energyrequest)
        /\ fn = "get_inelastic_crosssection" =>
            /\ curve = lead.icross
            /\ ret = LookupRet(SelectIcross(7), energyrequest)

C11_Witness ==
    /\ fn = "get_rho"
    /\ ma_index = 99
    /\ Returned(lead.rho)

AtTablePoint(k) == IsLookup /\ energyrequest = At(energy, k)

\* C12 as stated: whenever the requested energy equals energy[k], k in 0..58,
\* efrac is 0 and the value is read at the lower edge of the bin ilow = k.
C12_Original ==
    \A k \in 0 .. 58 : AtTablePoint(k) => efrac = 0 /\ ilow = k

\* C12 amended: whenever the requested energy equals energy[k], efrac is 0
\* with ilow = 0 for k = 0, and efrac is 1 with ilow = k - 1 for k in 1..58
\* (the value is read at the upper edge of the bin below the point).
C12_Amended ==
    \A k \in 0 .. 58 :
        AtTablePoint(k) =>
            IF k = 0 THEN efrac = 0 /\ ilow = 0
            ELSE efrac = Scale /\ ilow = k - 1

C12_Witness == AtTablePoint(11) /\ ilow = 10 /\ efrac = Scale

Between(x, a, b) == (a <= x /\ x <= b) \/ (b <= x /\ x <= a)

\* C13: for every selector, both lookups and every requested energy E in
\* [energy[0], energy[58]] for which the lookup returns a value,
\* energy[ilow] <= E <= energy[ilow+1], 0 <= efrac <= 1 and the result lies
\* between curve[ilow] and curve[ilow+1] and is non-negative; efrac < 0
\* exactly when E < energy[0], and efrac > 1 exactly when E > energy[58].
C13_InsideBin ==
    IsLookup =>
        /\ (InTable(energyrequest) /\ ret.status = "ok") =>
            /\ At(energy, ilow) <= energyrequest
            /\ energyrequest <= At(energy, ilow + 1)
            /\ 0 <= efrac /\ efrac <= Scale
            /\ Between(ret.value, At(curve, ilow) * Scale,
                       At(curve, ilow + 1) * Scale)
            /\ ret.value >= 0
        /\ efrac < 0 <=> energyrequest < At(energy, 0)
        /\ efrac > Scale <=> energyrequest > At(energy, 58)

C13_Witness ==
    /\ IsLookup
    /\ InTable(energyrequest)
    /\ ret.status = "ok"
    /\ 0 < efrac /\ efrac < Scale
    /\ At(curve, ilow) * Scale < ret.value
    /\ ret.value < At(curve, ilow + 1) * Scale

====
